---- MODULE Spec2Model ----
(***************************************************************************)
(* Model of Source/Dynamite/CNTKLibraryHelpers.h (namespace Dynamite):     *)
(*   Index       - slice the last axis of an NDArrayView and drop it       *)
(*   MakeEye/Eye - identity matrix, memoized in a function-local static map*)
(*   FromCNTKMB  - unpack a minibatch into per-argument, per-sequence      *)
(*                 Constants, densifying sparse data with Eye              *)
(* An NDArrayView is a record                                              *)
(*   [shape, data, isSparse, dataType, device, obj]                        *)
(* shape is the NDShape (a sequence of extents), data the elements in      *)
(* column-major order (the first axis is the fastest), obj the identity of *)
(* the object the shared pointer points to.                                *)
(***************************************************************************)
EXTENDS Integers, Sequences, FiniteSets, TLC

VARIABLES
    cached,     \* Eye's static map: key <<n, dataType>> -> NDArrayViewPtr
    built,      \* key -> how many times MakeEye has run for it
    eyeCall,    \* the last Eye call: its arguments and its outcome
    idxIn,      \* Index: the argument data
    idxI,       \* Index: the argument i (-1: not called yet)
    idxOut,     \* Index: the returned view
    idxPath,    \* Index: the branch taken
    mb,         \* FromCNTKMB: the arguments inputs, isSequence, device of the call
    res,        \* FromCNTKMB: the caller's vector<vector<Variable>>
    out,        \* FromCNTKMB: the exception thrown, the Eye and Index calls made
    thr         \* threads inside Eye: each one's position and locals

vars == <<cached, built, eyeCall, idxIn, idxI, idxOut, idxPath, mb, res, out, thr>>

\* ------------------------------------------------------------------ bounds
MaxDim == 2        \* identity matrices of dimension 1..MaxDim
MaxBuilt == 2      \* cap on MakeEye runs per key
MaxRank == 3       \* Index: rank of the argument
MaxExtent == 2     \* Index: extent of each axis
MaxBatch == 2      \* FromCNTKMB: number of sequences of a stream

DataTypes == {"Float", "Double", "UChar"}
Devices == {"CPU", "GPU0"}
Dims == 1..MaxDim
Keys == Dims \X DataTypes

NullPtr == [shape |-> <<>>, data |-> <<>>, isSparse |-> FALSE, dataType |-> "Unknown",
            device |-> "none", obj |-> [tag |-> "null", a |-> 0, b |-> 0]]

\* ------------------------------------------------------------ NDArrayView
RECURSIVE TotalSize(_)
TotalSize(dims) == IF dims = <<>> THEN 1 ELSE Head(dims) * TotalSize(Tail(dims))

\* the column-major offset of a multi-index (0-based) in a tensor of shape dims
RECURSIVE FlatOffset(_, _)
FlatOffset(index, dims) ==
    IF index = <<>> THEN 0
    ELSE Head(index) + Head(dims) * FlatOffset(Tail(index), Tail(dims))

\* the multi-index (0-based) of offset p in a tensor of shape dims
RECURSIVE MultiIndex(_, _)
MultiIndex(p, dims) ==
    IF dims = <<>> THEN <<>>
    ELSE <<p % Head(dims)>> \o MultiIndex(p \div Head(dims), Tail(dims))

\* NDArrayView::SliceView(startOffset, extent, readOnly): the elements at
\* startOffset + [0, extent); an axis extent leaves out has extent 1 and is
\* no axis of the result.
SliceView(data, startOffset, extent) ==
    LET rank == Len(data.shape)
        at(p) == LET mi == MultiIndex(p, extent)
                 IN [k \in 1..rank |->
                        startOffset[k] + (IF k <= Len(extent) THEN mi[k] ELSE 0)]
    IN [data EXCEPT
          !.shape = extent,
          !.data = [p \in 1..TotalSize(extent) |->
                        data.data[FlatOffset(at(p - 1), data.shape) + 1]],
          !.obj = [tag |-> "slice", a |-> data.obj.a, b |-> data.obj.b]]

\* NDArrayView::AsShape(newShape): the same storage under another shape
AsShape(data, newShape) ==
    [data EXCEPT !.shape = newShape,
                 !.obj = [tag |-> "reshape", a |-> data.obj.a, b |-> data.obj.b]]

\* ------------------------------------------------------------------ Index
\* the condition of line 33 with the wrong connective
IndexSlicesBothOnly(data, i) ==
    0 # i /\ data.shape[Len(data.shape)] # 1

\* line 33: startOffset is all zeros, extent is dims
IndexSlices(data, i) ==
    0 # i \/ data.shape[Len(data.shape)] # 1

Index(data, i) ==
    LET dims == data.shape
        rank == Len(dims)
    IN IF IndexSlices(data, i)
       THEN SliceView(data, [k \in 1..rank |-> IF k = rank THEN i ELSE 0],
                      SubSeq(dims, 1, rank - 1))
       ELSE AsShape(data, SubSeq(dims, 1, rank - 1))

\* -------------------------------------------------------------- MakeEye, Eye
\* k numbers the allocations for the key: two runs give two objects
MakeEye(n, dataType, device, k) ==
    [shape |-> <<n, n>>,
     data |-> [p \in 1..(n * n) |-> IF (p - 1) % n = (p - 1) \div n THEN 1 ELSE 0],
     isSparse |-> FALSE,
     dataType |-> dataType,
     device |-> device,
     obj |-> [tag |-> "eye", a |-> n, b |-> k]]

IsSupported(dataType) == dataType \in {"Float", "Double"}

\* line 74, left side: map::operator[] adds the key with a null pointer when
\* the map does not have it
Subscript(c, key) ==
    [x \in DOMAIN c \cup {key} |-> IF x \in DOMAIN c THEN c[x] ELSE NullPtr]

\* line 74 as an insertion that keeps an entry already set
AssignKeepsFirst(c, key, eye) ==
    IF c[key] = NullPtr THEN [c EXCEPT ![key] = eye] ELSE c

\* line 74, the assignment to the entry
Assign(c, key, eye) ==
    [c EXCEPT ![key] = eye]

\* Eye without the lookup of lines 63-65
EyeAlwaysBuilds(c, b, n, dataType, device) ==
    LET key == <<n, dataType>> IN
    IF ~IsSupported(dataType)
    THEN [cached |-> c, built |-> b, ret |-> NullPtr, hit |-> FALSE,
          err |-> "Eye: Unsupported data type."]
    ELSE LET eye == MakeEye(n, dataType, device, b[key] + 1)
         IN [cached |-> Assign(Subscript(c, key), key, eye),
             built |-> [b EXCEPT ![key] = @ + 1],
             ret |-> eye, hit |-> FALSE, err |-> "none"]

\* Eye with the insertion hoisted above the switch of lines 68-73
EyeInsertsFirst(c, b, n, dataType, device) ==
    LET key == <<n, dataType>> IN
    IF key \in DOMAIN c
    THEN [cached |-> c, built |-> b, ret |-> c[key], hit |-> TRUE, err |-> "none"]
    ELSE IF ~IsSupported(dataType)
    THEN [cached |-> [x \in DOMAIN c \cup {key} |-> IF x = key THEN NullPtr ELSE c[x]],
          built |-> b, ret |-> NullPtr, hit |-> FALSE,
          err |-> "Eye: Unsupported data type."]
    ELSE LET eye == MakeEye(n, dataType, device, b[key] + 1)
         IN [cached |-> Assign(Subscript(c, key), key, eye),
             built |-> [b EXCEPT ![key] = @ + 1],
             ret |-> eye, hit |-> FALSE, err |-> "none"]

\* Eye on the map c with the allocation counts b: the map and the counts after
\* the call, the pointer returned, whether the lookup hit, the exception thrown
Eye(c, b, n, dataType, device) ==
    LET key == <<n, dataType>> IN
    IF key \in DOMAIN c
    THEN [cached |-> c, built |-> b, ret |-> c[key], hit |-> TRUE, err |-> "none"]
    ELSE IF ~IsSupported(dataType)
    THEN [cached |-> c, built |-> b, ret |-> NullPtr, hit |-> FALSE,
          err |-> "Eye: Unsupported data type."]
    ELSE LET eye == MakeEye(n, dataType, device, b[key] + 1)
         IN [cached |-> Assign(Subscript(c, key), key, eye),
             built |-> [b EXCEPT ![key] = @ + 1],
             ret |-> eye, hit |-> FALSE, err |-> "none"]


\* -------------------------------------------------------------- FromCNTKMB
BatchShapeMismatchError == "FromCNTKMB: Streams must all have the same number of sequences."
MalformedStreamError == "FromCNTKMB: Streams declared as !isSequence must have a trailing dimension of 1."
UnsupportedTypeError == "Eye: Unsupported data type."

Last(seq) == seq[Len(seq)]

RECURSIVE SeqMax(_)
SeqMax(seq) ==
    IF seq = <<>> THEN 1
    ELSE LET m == SeqMax(Tail(seq)) IN IF Head(seq) > m THEN Head(seq) ELSE m

\* NDShape::SubShape(begin, end)
SubShape(shape, begin, end) == SubSeq(shape, begin + 1, end)

\* Axis::DefaultInputVariableDynamicAxes() and { Axis::DefaultBatchAxis() }
DynamicAxes(isSeq) ==
    IF isSeq THEN <<"DefaultDynamicAxis", "DefaultBatchAxis">> ELSE <<"DefaultBatchAxis">>

\* Value::UnpackVariableValue for argument i: one view per sequence, sequence s
\* of shape sampleShape ++ [its length], on the device asked for
UnpackVariableValue(input, sampleShape, device, i) ==
    [s \in 1..Len(input.lens) |->
        LET shape == sampleShape \o <<input.lens[s]>> IN
        [shape |-> shape,
         data |-> [k \in 1..TotalSize(shape) |-> 100 * i + 10 * s + k],
         isSparse |-> input.isSparse,
         dataType |-> input.dataType,
         device |-> device,
         obj |-> [tag |-> "sequence", a |-> i, b |-> s]]]

RECURSIVE DotProduct(_, _, _, _, _, _)
DotProduct(A, B, r, c, n, j) ==
    IF j = 0 THEN 0
    ELSE A.data[(j - 1) * n + r + 1] * B.data[c * A.shape[2] + j] + DotProduct(A, B, r, c, n, j - 1)

\* NDArrayView::MatrixProduct(false, A, false, B, false, 1.0, 1): the dense
\* product of the matrix A with B flattened to a matrix of A.shape[2] rows
MatrixProduct(A, B) ==
    LET n == A.shape[1]
        m == TotalSize(Tail(B.shape))
    IN [shape |-> <<n>> \o Tail(B.shape),
        data |-> [p \in 1..(n * m) |->
                    DotProduct(A, B, (p - 1) % n, (p - 1) \div n, n, A.shape[2])],
        isSparse |-> FALSE,
        dataType |-> B.dataType,
        device |-> B.device,
        obj |-> [tag |-> "product", a |-> B.obj.a, b |-> B.obj.b]]

Constant(data) == [kind |-> "Constant", value |-> data]
NullVariable == [kind |-> "null", value |-> NullPtr]

\* lines 98-101: the first argument is told by numSeq being 0 still
CheckNumSeq(numSeq, size) ==
    IF numSeq = 0 THEN [numSeq |-> size, err |-> "none"]
    ELSE IF numSeq # size THEN [numSeq |-> numSeq, err |-> BatchShapeMismatchError]
    ELSE [numSeq |-> numSeq, err |-> "none"]

\* lines 110-115 without the call of Index
DropAxisKeepsAxis(data, hasAxis) ==
    IF hasAxis THEN [data |-> data, err |-> "none", indexed |-> FALSE]
    ELSE IF Last(data.shape) # 1
    THEN [data |-> data, err |-> MalformedStreamError, indexed |-> FALSE]
    ELSE [data |-> data, err |-> "none", indexed |-> FALSE]

\* lines 110-115 without the check of the trailing dimension
DropAxisUnchecked(data, hasAxis) ==
    IF hasAxis THEN [data |-> data, err |-> "none", indexed |-> FALSE]
    ELSE [data |-> Index(data, 0), err |-> "none", indexed |-> TRUE]

\* lines 110-115: return in correct shape
DropAxis(data, hasAxis) ==
    IF hasAxis THEN [data |-> data, err |-> "none", indexed |-> FALSE]
    ELSE IF Last(data.shape) # 1
    THEN [data |-> data, err |-> MalformedStreamError, indexed |-> FALSE]
    ELSE [data |-> Index(data, 0), err |-> "none", indexed |-> TRUE]

\* lines 117-122 asking Eye for a Float identity whatever the data type
DensifyAsFloat(c, b, data) ==
    IF ~data.isSparse
    THEN [data |-> data, cached |-> c, built |-> b, err |-> "none", calls |-> <<>>]
    ELSE LET e == Eye(c, b, data.shape[1], "Float", data.device)
             call == [n |-> data.shape[1], dataType |-> "Float",
                      device |-> data.device, ret |-> e.ret, hit |-> e.hit]
         IN IF e.err # "none"
            THEN [data |-> data, cached |-> e.cached, built |-> e.built, err |-> e.err,
                  calls |-> <<call>>]
            ELSE [data |-> MatrixProduct(e.ret, data), cached |-> e.cached,
                  built |-> e.built, err |-> "none", calls |-> <<call>>]

\* lines 117-122: multiply sparse data with an identity matrix
Densify(c, b, data) ==
    IF ~data.isSparse
    THEN [data |-> data, cached |-> c, built |-> b, err |-> "none", calls |-> <<>>]
    ELSE LET e == Eye(c, b, data.shape[1], data.dataType, data.device)
             call == [n |-> data.shape[1], dataType |-> data.dataType,
                      device |-> data.device, ret |-> e.ret, hit |-> e.hit]
         IN IF e.err # "none"
            THEN [data |-> data, cached |-> e.cached, built |-> e.built, err |-> e.err,
                  calls |-> <<call>>]
            ELSE [data |-> MatrixProduct(e.ret, data), cached |-> e.cached,
                  built |-> e.built, err |-> "none", calls |-> <<call>>]

\* lines 106-126: the loop over the sequences of argument i, from sequence s on.
\* st is the running state of the call: res, numSeq, the map of Eye and its
\* allocation counts, the exception thrown, and what was called on the way.
RECURSIVE SequenceLoop(_, _, _, _, _)
SequenceLoop(st, sequences, hasAxis, i, s) ==
    IF s > st.numSeq \/ st.err # "none" THEN st
    ELSE LET dropped == DropAxis(sequences[s], hasAxis)
             indexed == IF dropped.indexed THEN st.indexed \cup {<<i, s>>} ELSE st.indexed
         IN IF dropped.err # "none"
            THEN [st EXCEPT !.err = dropped.err]
            ELSE LET dense == Densify(st.cached, st.built, dropped.data)
                     st1 == [st EXCEPT
                               !.indexed = indexed,
                               !.cached = dense.cached,
                               !.built = dense.built,
                               !.eyeLog = @ \o [k \in 1..Len(dense.calls) |->
                                                 [i |-> i, s |-> s, call |-> dense.calls[k]]]]
                 IN IF dense.err # "none"
                    THEN [st1 EXCEPT !.err = dense.err]
                    ELSE SequenceLoop([st1 EXCEPT !.res[i][s] = Constant(dense.data)],
                                    sequences, hasAxis, i, s + 1)

\* lines 86-127: the loop over the arguments, from argument i on
RECURSIVE ArgumentLoop(_, _, _, _, _)
ArgumentLoop(st, inputs, isSequence, device, i) ==
    IF i > Len(inputs) \/ st.err # "none" THEN st
    ELSE LET input == inputs[i]
             fullShape == input.shape
             sampleShape == SubShape(fullShape, 0, Len(fullShape) - 2)
             dynamicAxes == DynamicAxes(isSequence[i])
             sequences == UnpackVariableValue(input, sampleShape, device, i)
             check == CheckNumSeq(st.numSeq, Len(sequences))
             hasAxis == Len(dynamicAxes) > 1
         IN IF check.err # "none"
            THEN [st EXCEPT !.err = check.err]
            ELSE ArgumentLoop(
                   SequenceLoop([st EXCEPT !.numSeq = check.numSeq,
                                         !.res[i] = [s \in 1..check.numSeq |-> NullVariable]],
                              sequences, hasAxis, i, 1),
                   inputs, isSequence, device, i + 1)

\* lines 80-128
FromCNTKMB(c, b, inputs, isSequence, device) ==
    ArgumentLoop([res |-> [i \in 1..Len(inputs) |-> <<>>],
               numSeq |-> 0,
               cached |-> c,
               built |-> b,
               err |-> "none",
               eyeLog |-> <<>>,
               indexed |-> {}],
              inputs, isSequence, device, 1)

\* ------------------------------------------------------------------- state
NoCall == [n |-> 0, dataType |-> "Unknown", device |-> "none", ret |-> NullPtr,
           hit |-> FALSE, err |-> "none", before |-> <<>>]

\* the arguments Index is applied to: every shape of rank 1..MaxRank with
\* extents 1..MaxExtent, the elements numbered in storage order
RECURSIVE Shapes(_)
Shapes(r) ==
    IF r = 0 THEN {<<>>}
    ELSE {<<e>> \o s : e \in 1..MaxExtent, s \in Shapes(r - 1)}

IndexArgs ==
    {[shape |-> s, data |-> [p \in 1..TotalSize(s) |-> p], isSparse |-> FALSE,
      dataType |-> dt, device |-> dev, obj |-> [tag |-> "arg", a |-> 0, b |-> 0]] :
        s \in UNION {Shapes(r) : r \in 1..MaxRank}, dt \in {"Float", "Double"},
        dev \in Devices}

EyeInit ==
    /\ cached = <<>>
    /\ built = [key \in Keys |-> 0]
    /\ eyeCall = NoCall

IndexIdle ==
    /\ idxI = -1
    /\ idxOut = NullPtr
    /\ idxPath = "none"

\* the streams a reader delivers: a Value of shape sampleShape ++ [length, batch]
\* with the length of each of its sequences
StreamKinds ==
    {[isSparse |-> FALSE, dataType |-> "Float", sampleShape |-> <<2>>],
     [isSparse |-> TRUE, dataType |-> "Float", sampleShape |-> <<2>>],
     [isSparse |-> TRUE, dataType |-> "Double", sampleShape |-> <<1, 2>>],
     [isSparse |-> TRUE, dataType |-> "UChar", sampleShape |-> <<2>>]}

SeqLengths == {1, 2}
ArgCounts == {1, 2}

RECURSIVE LengthLists(_)
LengthLists(n) ==
    IF n = 0 THEN {<<>>}
    ELSE LengthLists(n - 1) \cup
         {<<l>> \o ls : l \in SeqLengths, ls \in {x \in LengthLists(n - 1) : Len(x) = n - 1}}

Streams ==
    {[shape |-> k.sampleShape \o <<SeqMax(lens), Len(lens)>>,
      isSparse |-> k.isSparse, dataType |-> k.dataType, lens |-> lens] :
        k \in StreamKinds, lens \in LengthLists(MaxBatch)}

NoMB == [inputs |-> <<>>, isSequence |-> <<>>, device |-> "none"]
NoOut == [err |-> "none", eyeLog |-> <<>>, indexed |-> {}, done |-> FALSE]

UnpackIdle ==
    /\ mb = NoMB
    /\ res = <<>>
    /\ out = NoOut

Threads == {"t1", "t2"}
Idle == [pc |-> "idle", n |-> 0, dataType |-> "Unknown", device |-> "none",
         eye |-> NullPtr, ret |-> NullPtr, missed |-> FALSE, err |-> "none"]

Init ==
    /\ EyeInit
    /\ idxIn = NullPtr
    /\ IndexIdle
    /\ UnpackIdle
    /\ thr = [t \in Threads |-> Idle]

\* ------------------------------------------------------ sequential Eye calls
Get(n, dataType, device) ==
    \E r \in {Eye(cached, built, n, dataType, device)} :
    /\ built[<<n, dataType>>] < MaxBuilt
    /\ cached' = r.cached
    /\ built' = r.built
    /\ eyeCall' = [n |-> n, dataType |-> dataType, device |-> device, ret |-> r.ret,
                   hit |-> r.hit, err |-> r.err, before |-> cached]
    /\ UNCHANGED <<idxIn, idxI, idxOut, idxPath, mb, res, out, thr>>

NextEye == \E n \in Dims, dataType \in DataTypes, device \in Devices : Get(n, dataType, device)

SpecEye == Init /\ [][NextEye]_vars

\* ------------------------------------------------------------- Index calls
InitIndex ==
    /\ EyeInit
    /\ idxIn \in IndexArgs
    /\ IndexIdle
    /\ UnpackIdle
    /\ thr = [t \in Threads |-> Idle]

IndexCall(i) ==
    /\ idxI = -1
    /\ i < idxIn.shape[Len(idxIn.shape)]
    /\ idxI' = i
    /\ idxOut' = Index(idxIn, i)
    /\ idxPath' = IF IndexSlices(idxIn, i) THEN "slice" ELSE "reshape"
    /\ UNCHANGED <<cached, built, eyeCall, idxIn, mb, res, out, thr>>

NextIndex == \E i \in 0..(MaxExtent - 1) : IndexCall(i)

SpecIndex == InitIndex /\ [][NextIndex]_vars

\* -------------------------------------------------------- FromCNTKMB calls
\* one call of FromCNTKMB on a minibatch; Eye's map outlives the call
Unpack(inputs, isSequence, device) ==
    \E r \in {FromCNTKMB(cached, built, inputs, isSequence, device)} :
    /\ \A key \in Keys : r.built[key] <= MaxBuilt
    /\ mb' = [inputs |-> inputs, isSequence |-> isSequence, device |-> device]
    /\ res' = r.res
    /\ out' = [err |-> r.err, eyeLog |-> r.eyeLog, indexed |-> r.indexed, done |-> TRUE]
    /\ cached' = r.cached
    /\ built' = r.built
    /\ UNCHANGED <<eyeCall, idxIn, idxI, idxOut, idxPath, thr>>

\* the caller is done with the minibatch and its result
Release ==
    /\ mb # NoMB
    /\ mb' = NoMB
    /\ res' = <<>>
    /\ out' = NoOut
    /\ UNCHANGED <<cached, built, eyeCall, idxIn, idxI, idxOut, idxPath, thr>>

\* the caller unpacks one minibatch at a time
NextUnpack ==
    \/ /\ mb = NoMB
       /\ \E numArgs \in ArgCounts, device \in Devices :
             \E inputs \in [1..numArgs -> Streams], isSequence \in [1..numArgs -> BOOLEAN] :
                Unpack(inputs, isSequence, device)
    \/ Release

SpecUnpack == Init /\ [][NextUnpack]_vars

\* ------------------------------------------- Eye called from two threads
\* Eye takes no lock: a thread's call is the steps below, and the steps of the
\* threads interleave. Each thread calls Eye once.
KeyOf(t) == <<thr[t].n, thr[t].dataType>>
Rest == <<eyeCall, idxIn, idxI, idxOut, idxPath, mb, res, out>>

\* lines 62-65: the lookup; a hit returns what the entry holds at this moment
Find(t, n, dataType, device) ==
    /\ thr[t].pc = "idle"
    /\ thr' = [thr EXCEPT ![t] =
                 IF <<n, dataType>> \in DOMAIN cached
                 THEN [Idle EXCEPT !.pc = "done", !.n = n, !.dataType = dataType,
                                   !.device = device, !.ret = cached[<<n, dataType>>]]
                 ELSE [Idle EXCEPT !.pc = "switch", !.n = n, !.dataType = dataType,
                                   !.device = device, !.missed = TRUE]]
    /\ UNCHANGED <<cached, built>>
    /\ UNCHANGED Rest

\* lines 67-73: the switch builds the identity, or throws
Switch(t) ==
    /\ thr[t].pc = "switch"
    /\ IF IsSupported(thr[t].dataType)
       THEN /\ built[KeyOf(t)] < MaxBuilt
            /\ thr' = [thr EXCEPT ![t].pc = "subscript",
                                  ![t].eye = MakeEye(thr[t].n, thr[t].dataType,
                                                     thr[t].device, built[KeyOf(t)] + 1)]
            /\ built' = [built EXCEPT ![KeyOf(t)] = @ + 1]
       ELSE /\ thr' = [thr EXCEPT ![t].pc = "done", ![t].err = UnsupportedTypeError]
            /\ UNCHANGED built
    /\ UNCHANGED cached
    /\ UNCHANGED Rest

\* line 74: cached[key]
SubscriptStep(t) ==
    /\ thr[t].pc = "subscript"
    /\ cached' = Subscript(cached, KeyOf(t))
    /\ thr' = [thr EXCEPT ![t].pc = "assign"]
    /\ UNCHANGED built
    /\ UNCHANGED Rest

\* lines 74-75: ... = eye; return eye
AssignStep(t) ==
    /\ thr[t].pc = "assign"
    /\ cached' = Assign(cached, KeyOf(t), thr[t].eye)
    /\ thr' = [thr EXCEPT ![t].pc = "done", ![t].ret = thr[t].eye]
    /\ UNCHANGED built
    /\ UNCHANGED Rest

NextConc ==
    \E t \in Threads :
        \/ \E n \in Dims, dataType \in DataTypes, device \in Devices : Find(t, n, dataType, device)
        \/ Switch(t)
        \/ SubscriptStep(t)
        \/ AssignStep(t)

SpecConc == Init /\ [][NextConc]_vars

\* ===================================================================== claims
IsIdentity(t, n) ==
    /\ t.shape = <<n, n>>
    /\ Len(t.data) = n * n
    /\ \A r \in 0..(n - 1), c \in 0..(n - 1) :
          t.data[c * n + r + 1] = (IF r = c THEN 1 ELSE 0)

\* C3: every Eye call with a supported data type returns an n-by-n identity
\* tensor of that type that is resident on the device passed to that call,
\* whatever an earlier call stored under the same (n, dataType).
C3_GetReturnsOnRequestedDevice ==
    (eyeCall.n # 0 /\ IsSupported(eyeCall.dataType)) =>
        /\ eyeCall.err = "none"
        /\ IsIdentity(eyeCall.ret, eyeCall.n)
        /\ eyeCall.ret.dataType = eyeCall.dataType
        /\ eyeCall.ret.device = eyeCall.device

\* C4: in a single-threaded sequence of Eye calls the identity for a key is
\* built by the first call with that key only; a later call with the key builds
\* nothing and returns the very object that call stored, and no step removes
\* or replaces an entry of the map.
C4_BuiltOnceThenShared ==
    [][ /\ \A key \in DOMAIN cached :
              key \in DOMAIN cached' /\ cached'[key] = cached[key]
        /\ \A key \in Keys : built'[key] <= 1
        /\ LET key == <<eyeCall'.n, eyeCall'.dataType>> IN
           IF key \in DOMAIN cached
           THEN /\ eyeCall'.ret = cached[key]
                /\ built' = built
                /\ cached' = cached
           ELSE IsSupported(eyeCall'.dataType) =>
                /\ built'[key] = built[key] + 1
                /\ cached'[key] = eyeCall'.ret
      ]_vars

C4_Witness ==
    /\ eyeCall.hit
    /\ eyeCall.ret = cached[<<eyeCall.n, eyeCall.dataType>>]
    /\ built[<<eyeCall.n, eyeCall.dataType>>] = 1
    /\ Cardinality(DOMAIN cached) > 1

\* C6: for a tensor of rank >= 1 and a valid index i of its last axis, Index
\* returns a view whose shape is the shape without the last axis and whose
\* elements are those of the slice at i; it reshapes exactly when i = 0 and the
\* last extent is 1, and slices otherwise.
C6_IndexDropsLastAxis ==
    idxI # -1 =>
        LET dims == idxIn.shape
            rank == Len(dims)
            rest == SubSeq(dims, 1, rank - 1)
            stride == TotalSize(rest)
        IN /\ idxOut.shape = rest
           /\ Len(idxOut.shape) = rank - 1
           /\ idxOut.data = SubSeq(idxIn.data, idxI * stride + 1, (idxI + 1) * stride)
           /\ idxOut.dataType = idxIn.dataType
           /\ idxOut.device = idxIn.device
           /\ idxPath \in {"slice", "reshape"}
           /\ (idxPath = "reshape") <=> (idxI = 0 /\ dims[rank] = 1)

C6_Witness ==
    /\ idxI = 1
    /\ idxPath = "slice"
    /\ Len(idxIn.shape) = MaxRank
    /\ idxIn.shape[1] > 1
    /\ idxOut.data = SubSeq(idxIn.data, TotalSize(idxOut.shape) + 1, 2 * TotalSize(idxOut.shape))

\* C8: an Eye call with a data type other than Float and Double throws
\* "Unsupported data type" whatever the map holds, and the map never has an
\* entry under a key with such a data type.
C8_UnsupportedTypeAlwaysFails ==
    /\ (eyeCall.n # 0 /\ ~IsSupported(eyeCall.dataType)) =>
          /\ eyeCall.err = "Eye: Unsupported data type."
          /\ ~eyeCall.hit
          /\ cached = eyeCall.before
    /\ \A key \in DOMAIN cached : IsSupported(key[2])

C8_Witness ==
    /\ eyeCall.dataType = "UChar"
    /\ eyeCall.err = "Eye: Unsupported data type."
    /\ eyeCall.before # <<>>
    /\ <<eyeCall.n, "Float">> \in DOMAIN cached

\* ------------------------------------------------- the last FromCNTKMB call
NumArgs == Len(mb.inputs)
Batch(i) == Len(mb.inputs[i].lens)
SampleShapeOf(i) == SubSeq(mb.inputs[i].shape, 1, Len(mb.inputs[i].shape) - 2)
Returned == out.done /\ out.err = "none"
Threw == out.done /\ out.err # "none"
\* sequence s of argument i, as unpacked, has a trailing dimension other than 1
BadTrailing(i, s) == mb.inputs[i].lens[s] # 1
\* the shape and the elements of sequence s of argument i after the axis handling
HandledShape(i, s) ==
    SampleShapeOf(i) \o (IF mb.isSequence[i] THEN <<mb.inputs[i].lens[s]>> ELSE <<>>)
HandledData(i, s) ==
    [k \in 1..TotalSize(HandledShape(i, s)) |-> 100 * i + 10 * s + k]
EyeCallsFor(i, s) == {k \in 1..Len(out.eyeLog) : out.eyeLog[k].i = i /\ out.eyeLog[k].s = s}

\* C1: a later argument whose sequence count differs from the first argument's
\* makes the call fail, so that a call that returns normally has unpacked all
\* its arguments to the same number of sequences.
C1_SameSequenceCount ==
    out.done =>
        /\ (\E i \in 2..NumArgs : Batch(i) # Batch(1)) => out.err # "none"
        /\ out.err = "none" => \A i \in 1..NumArgs : Len(res[i]) = Len(res[1])

\* C2: when the call fails with the sequence-count mismatch or the malformed
\* stream error, the result collection of the caller holds no unpacked tensor
\* of the arguments and sequences processed before the failure.
C2_NoPartialResult ==
    (out.done /\ out.err \in {BatchShapeMismatchError, MalformedStreamError}) =>
        \A i \in 1..Len(res) : \A s \in 1..Len(res[i]) : res[i][s].kind # "Constant"

\* C5: for a stream declared non-sequential of declared shape
\* sample ++ [1, batch], a call that returns has stored exactly batch Constants
\* for it, the one at s made of sequence s, each of shape sample.
C5_RoundTripShape ==
    Returned =>
        \A i \in 1..NumArgs :
            LET shape == mb.inputs[i].shape
                rank == Len(shape)
            IN (~mb.isSequence[i] /\ shape[rank - 1] = 1) =>
                  /\ Len(res[i]) = shape[rank]
                  /\ \A s \in 1..shape[rank] :
                        /\ res[i][s].kind = "Constant"
                        /\ res[i][s].value.shape = SubSeq(shape, 1, rank - 2)
                        /\ res[i][s].value.obj.a = i
                        /\ res[i][s].value.obj.b = s
                        /\ res[i][s].value.data =
                              [k \in 1..TotalSize(SubSeq(shape, 1, rank - 2)) |->
                                  100 * i + 10 * s + k]

C5_Witness ==
    /\ Returned
    /\ NumArgs = 2
    /\ \E i \in 1..NumArgs :
          /\ ~mb.isSequence[i]
          /\ Batch(i) = MaxBatch
          /\ Len(SampleShapeOf(i)) = 2
          /\ Len(res[i]) = MaxBatch
          /\ res[i][MaxBatch].value.shape = SampleShapeOf(i)

\* C7 as written: a non-sequential argument with a sequence whose trailing
\* dimension is not 1 makes the call fail with the malformed stream error, and
\* Index is not applied to that sequence; for a sequential argument the
\* trailing dimension is not checked and Index is never applied.
C7_MalformedAlwaysReported ==
    out.done =>
        \A i \in 1..NumArgs :
            IF mb.isSequence[i]
            THEN \A s \in 1..Batch(i) : <<i, s>> \notin out.indexed
            ELSE \A s \in 1..Batch(i) :
                    BadTrailing(i, s) =>
                        /\ out.err = MalformedStreamError
                        /\ <<i, s>> \notin out.indexed

\* C7 amended: such a sequence makes the call fail, and Index is never applied
\* to it; the failure is the malformed stream error unless the sequence-count
\* mismatch of that or an earlier argument, or the unsupported data type of a
\* sparse sequence before it, is thrown first. For a sequential argument the
\* trailing dimension is not checked and Index is never applied.
C7_MalformedFailsTheCall ==
    out.done =>
        /\ \A i \in 1..NumArgs :
              IF mb.isSequence[i]
              THEN \A s \in 1..Batch(i) : <<i, s>> \notin out.indexed
              ELSE \A s \in 1..Batch(i) :
                      BadTrailing(i, s) =>
                          /\ out.err # "none"
                          /\ <<i, s>> \notin out.indexed
                          /\ out.err = BatchShapeMismatchError =>
                                \E j \in 2..i : \E h \in 1..(j - 1) : Batch(j) # Batch(h)
                          /\ out.err = UnsupportedTypeError =>
                                \E j \in 1..i :
                                    /\ mb.inputs[j].isSparse
                                    /\ ~IsSupported(mb.inputs[j].dataType)
                                    /\ j = i => ~BadTrailing(i, 1)
        /\ out.err = MalformedStreamError =>
              \E i \in 1..NumArgs : \E s \in 1..Batch(i) :
                  ~mb.isSequence[i] /\ BadTrailing(i, s)

C7_Witness ==
    /\ out.err = MalformedStreamError
    /\ NumArgs = 2
    /\ mb.isSequence[1] /\ Batch(1) = 2 /\ BadTrailing(1, 1)
    /\ ~mb.isSequence[2] /\ ~BadTrailing(2, 1) /\ BadTrailing(2, 2)
    /\ out.indexed = {<<2, 1>>}

\* C9: in a call that returns, a sequence that is sparse after the axis
\* handling is replaced by the product of the identity Eye gives for its
\* leading dimension and its own data type with it, so every tensor stored is
\* dense; a dense sequence is stored as it is, with no call of Eye.
C9_SparseDensifiedByIdentity ==
    Returned =>
        \A i \in 1..NumArgs : \A s \in 1..Batch(i) :
            LET v == res[i][s].value
                n == HandledShape(i, s)[1]
            IN /\ res[i][s].kind = "Constant"
               /\ ~v.isSparse
               /\ v.shape = HandledShape(i, s)
               /\ v.data = HandledData(i, s)
               /\ v.dataType = mb.inputs[i].dataType
               /\ IF mb.inputs[i].isSparse
                  THEN /\ Cardinality(EyeCallsFor(i, s)) = 1
                       /\ \A k \in EyeCallsFor(i, s) :
                             LET call == out.eyeLog[k].call
                             IN /\ call.n = n
                                /\ call.dataType = mb.inputs[i].dataType
                                /\ call.ret = cached[<<n, mb.inputs[i].dataType>>]
                                /\ IsIdentity(call.ret, n)
                                /\ call.ret.dataType = mb.inputs[i].dataType
                       /\ v.obj.tag = "product"
                  ELSE /\ EyeCallsFor(i, s) = {}
                       /\ v.obj.tag # "product"

C9_Witness ==
    /\ Returned
    /\ NumArgs = 2
    /\ mb.inputs[1].isSparse /\ mb.inputs[1].dataType = "Double" /\ Batch(1) = 2
    /\ ~mb.inputs[2].isSparse
    /\ Len(out.eyeLog) = 2
    /\ ~out.eyeLog[1].call.hit /\ out.eyeLog[2].call.hit
    /\ \A s \in 1..2 : ~res[1][s].value.isSparse /\ res[1][s].value.obj.tag = "product"

\* C10: Eye's lookup and insertion are separate steps under no lock. When two
\* threads call it for the same absent key and both miss, both build an
\* identity, they return different objects, and the map is left with what the
\* later assignment wrote: every assignment overwrites the entry.
C10_BothMissBothBuild ==
    [][ /\ \A t \in Threads :
              (thr[t].pc = "assign" /\ thr'[t].pc = "done") =>
                  cached'[KeyOf(t)] = thr[t].eye
        /\ \A t \in Threads : \A u \in Threads \ {t} :
              ( /\ thr'[t].pc = "done" /\ thr'[u].pc = "done"
                /\ thr'[t].n = thr'[u].n /\ thr'[t].dataType = thr'[u].dataType
                /\ thr'[t].missed /\ thr'[u].missed
                /\ IsSupported(thr'[t].dataType) ) =>
                  /\ built'[<<thr'[t].n, thr'[t].dataType>>] = 2
                  /\ thr'[t].ret # thr'[u].ret
                  /\ thr'[t].ret.obj # thr'[u].ret.obj
                  /\ cached'[<<thr'[t].n, thr'[t].dataType>>] \in {thr'[t].ret, thr'[u].ret}
      ]_vars

C10_Witness ==
    /\ thr["t1"].pc = "done" /\ thr["t2"].pc = "done"
    /\ thr["t1"].n = thr["t2"].n /\ thr["t1"].dataType = thr["t2"].dataType
    /\ thr["t1"].missed /\ thr["t2"].missed
    /\ built[KeyOf("t1")] = 2
    /\ thr["t1"].ret.obj.b = 1 /\ thr["t2"].ret.obj.b = 2
    /\ thr["t1"].ret # thr["t2"].ret
    /\ cached[KeyOf("t1")] = thr["t1"].ret

====
